---- MODULE Spec2Model ----
(***************************************************************************)
(* A model of simple_logger: the request logging middleware                *)
(* (simple_logger/middleware.py) and the trace context store, the tagged   *)
(* output sink and the remote log dispatcher (simple_logger/context.py).   *)
(*                                                                         *)
(* Every in-flight request r owns two logical tasks: <<"d", r>>, in which  *)
(* SimpleLoggerMiddleware.dispatch runs, and <<"h", r>>, the task that     *)
(* call_next starts for the downstream handler with a copy of dispatch's   *)
(* context.  A ContextVar holds one slot per task.                         *)
(***************************************************************************)
EXTENDS Integers, Sequences, FiniteSets, Bags, TLC

\* ---------------------------------------------------------------- bounds
NumRequests == 2      \* requests in flight
MaxOps == 2           \* operations one handler performs before it finishes
MaxGen == 2           \* longest chain of sends started by failed sends
MaxDepth == 2         \* nesting depth of with_trace_id wrappers
MaxLoggers == 2       \* SimpleLogger objects constructed
MaxApplied == 2       \* applications of a SimpleLogger to an application

Requests == 1..NumRequests
Tasks == {"d", "h", "c"} \X Requests

\* ---------------------------------------------------------------- values
None == "None"                        \* Python's None
Absent == "<absent>"                  \* the inbound request has no X-Trace-Id header
Paths == {"/", "/health"}
Methods == {"GET", "OPTIONS"}
InboundHeader == {Absent, "", "abc"}  \* X-Trace-Id on the inbound request
AllRequests == [path : Paths, method : Methods, x_trace_id : InboundHeader]
\* The requests dispatch tells apart: the three header cases on a path that
\* is never excluded, and requests that the exclusion lists can match by path
\* or by method
DispatchRequests ==
  { [path |-> "/", method |-> "GET", x_trace_id |-> h] : h \in InboundHeader }
  \cup { [path |-> "/health", method |-> "GET", x_trace_id |-> "abc"],
         [path |-> "/", method |-> "OPTIONS", x_trace_id |-> "abc"] }

\* GET requests; the X-Trace-Id header varies on the paths dispatch reads it for
GetRequests == {q \in AllRequests : /\ q.method = "GET"
                                    /\ q.path = "/health" => q.x_trace_id = Absent}
HandlerIds == {"xyz"}                 \* identifiers the handler passes to set_trace_id / with_trace_id
Statuses == {200}
Excs == { [type |-> "ValueError", msg |-> ""],
          [type |-> "RuntimeError", msg |-> "boom"] }
SinkError == [type |-> "SinkError", msg |-> "sink failed"]

\* What ends an awaited call_next when the framework cancels the handler:
\* asyncio.CancelledError, a BaseException that is not an Exception
BaseExcs == { [type |-> "CancelledError", msg |-> ""] }

\* "except Exception" matches e
IsException(e) == e \notin BaseExcs

\* str(e) of an exception: its message text, empty when it was raised without arguments
Str(e) == e.msg

\* str(uuid.uuid4()): the n-th generated identifier, fresh and non-empty
Uuid4(n) == "uuid-" \o ToString(n)

\* A slot of the ContextVar trace_id: the value, and the request whose code
\* stored it (0: nobody, the default).
NoSlot == [val |-> None, by |-> 0]

\* "if trace_id is not None" in place of "if trace_id"
TruthyNotNone(v) == v # None

\* Python truthiness of a trace id: None and "" are falsy
Truthy(v) == v # None /\ v # ""

VARIABLES
  children,           \* the tasks handlers have started
  given,              \* the options each SimpleLogger(...) call was given
  loggers,            \* the SimpleLogger objects constructed
  registered,         \* the middlewares registered by SimpleLogger.__call__
  cfg,                \* SimpleLoggerMiddleware's options
  builtins_print,     \* builtins.print: "original_print" or "traced_print"
  root_handlers,      \* number of APILogHandler objects on the root logger
  pc,                 \* where each request's dispatch is
  request,            \* the inbound request of each request
  trace_id,           \* dispatch's local variable trace_id
  trace_id_var,       \* ContextVar "trace_id": slot per task
  middleware_active,  \* ContextVar "middleware_active": value per task
  next_uuid,          \* number of uuid4() calls made so far
  result,             \* what call_next gave dispatch: a response or an exception
  ops,                \* operations each handler has performed
  tokens,             \* with_trace_id: stack of Tokens of each handler task
  entered,            \* with_trace_id: the slot observed when each wrapper was entered
  with_log,           \* with_trace_id: the wrapper that finished last in each handler
  outcome,            \* what dispatch gave back to the framework
  sink_calls,         \* log records handed to the configured log function
  threads,            \* sender threads started and not yet run (a bag)
  tasks,              \* asyncio tasks created for an async log function, not yet run
  posts,              \* POST attempts made
  diagnostics,        \* entries written by logging.error
  stdout,             \* lines emitted by original_print
  seen,               \* the latest result of get_trace_id() in each handler
  print_calls         \* the latest traced_print call of each handler

vars == <<children, given, loggers, registered, cfg, builtins_print, root_handlers, pc, request, trace_id, trace_id_var,
          middleware_active, next_uuid, result, ops, tokens, entered, with_log, outcome,
          sink_calls, threads, tasks, posts, diagnostics, stdout, seen, print_calls>>

\* ------------------------------------------------- context.py: the store

\* ContextVar.get() in task t
Get(var, t) == var[t]

\* A module-level variable in place of the ContextVar: one slot for all tasks
SetShared(var, t, v, r) == [u \in DOMAIN var |-> [val |-> v, by |-> r]]

\* trace_id_var.set(v) in task t, called by the code of request r
Set(var, t, v, r) == [var EXCEPT ![t] = [val |-> v, by |-> r]]

\* get_trace_id()
get_trace_id(t) == Get(trace_id_var, t).val

\* set_trace_id(trace_id)
set_trace_id(t, v, r) == Set(trace_id_var, t, v, r)

\* set_middleware_active(active)
set_middleware_active(t, active) == [middleware_active EXCEPT ![t] = active]

\* ------------------------------------- context.py: the remote dispatcher

BagOf(x, k) == IF k = 0 THEN EmptyBag ELSE [y \in {x} |-> k]

\* A sender thread: what it carries ("record": a log record given to
\* api_log_function, "message": a message given to send_to_api), the request
\* it was started for, and gen, the number of failed sends that led to it.
Thread(kind, r, gen) == [kind |-> kind, req |-> r, gen |-> gen]

\* send_to_api(message, ...): builds the payload and starts one daemon thread
send_to_api(ths, r, gen) == ths (+) BagOf(Thread("message", r, gen), 1)

\* APILogHandler.emit, once per APILogHandler on the root logger
emit(ths, r, gen) == ths (+) BagOf(Thread("message", r, gen), root_handlers)

\* logging.error(text): the record goes to every handler of the root logger
logging_error(ths, r, gen) == emit(ths, r, gen)

Diag(text, r, gen) == [text |-> text, req |-> r, gen |-> gen]

\* api_log_function(log_data): starts one daemon thread and returns
api_log_function(ths, r) == ths (+) BagOf(Thread("record", r, 0), 1)

\* The time of sending written over the record's timestamp
StampAlways(ld) == [ld EXCEPT !.keys = @ \cup {"timestamp"}, !.timestamp = "sent"]

\* _send: "if 'timestamp' not in log_data: log_data['timestamp'] = time.time()",
\* on the dict the caller handed over
StampIfMissing(ld) ==
  IF "timestamp" \in ld.keys THEN ld
  ELSE [ld EXCEPT !.keys = @ \cup {"timestamp"}, !.timestamp = "sent"]

\* send_request / _send_log_async: the body of a sender thread.  One POST
\* (of the record it was handed, stamped if needed); when it fails,
\* logging.error("Error sending log to API: ...").
SenderRun ==
  \E t \in BagToSet(threads), ok \in BOOLEAN :
    /\ ok \/ root_handlers = 0 \/ t.gen < MaxGen
    /\ sink_calls' = {IF t.kind = "record" /\ c.req = t.req
                        THEN [c EXCEPT !.log_data = StampIfMissing(@)] ELSE c :
                      c \in sink_calls}
    /\ posts' = posts \cup {[kind |-> t.kind, req |-> t.req, gen |-> t.gen, ok |-> ok]}
    /\ IF ok
         THEN /\ threads' = threads (-) BagOf(t, 1)
              /\ UNCHANGED diagnostics
         ELSE /\ threads' = logging_error(threads (-) BagOf(t, 1), t.req, t.gen + 1)
              /\ diagnostics' = diagnostics \cup {Diag("Error sending log to API", t.req, t.gen)}
    /\ UNCHANGED <<children, given, loggers, registered, cfg, builtins_print, root_handlers, pc, request, trace_id, trace_id_var,
                   middleware_active, next_uuid, result, ops, tokens, entered, with_log,
                   outcome, tasks, stdout, seen, print_calls>>

\* The body of a sender thread while nothing listens at the endpoint: the
\* POST fails and logging.error hands the failure to the root logger's
\* handlers.  Past MaxGen, gen counts on from 1: the chain of failed sends
\* has no end, its position is kept modulo MaxGen.
SenderRunUnreachable ==
  \E t \in BagToSet(threads) :
    LET gen == IF t.gen < MaxGen THEN t.gen + 1 ELSE 1 IN
    /\ posts' = posts \cup {[kind |-> t.kind, req |-> t.req, gen |-> t.gen, ok |-> FALSE]}
    /\ sink_calls' = {IF t.kind = "record" /\ c.req = t.req
                        THEN [c EXCEPT !.log_data = StampIfMissing(@)] ELSE c :
                      c \in sink_calls}
    /\ threads' = logging_error(threads (-) BagOf(t, 1), t.req, gen)
    /\ diagnostics' = diagnostics \cup {Diag("Error sending log to API", t.req, t.gen)}
    /\ UNCHANGED <<children, given, loggers, registered, cfg, builtins_print, root_handlers, pc, request, trace_id, trace_id_var,
                   middleware_active, next_uuid, result, ops, tokens, entered, with_log,
                   outcome, tasks, stdout, seen, print_calls>>

\* The body of an asyncio task created for an async log function.  Nobody
\* awaits the task: its exception, if any, is never retrieved.
AsyncSinkRun ==
  \E k \in tasks, fails \in BOOLEAN :
    /\ tasks' = tasks \ {k}
    /\ UNCHANGED <<children, given, loggers, registered, cfg, builtins_print, root_handlers, pc, request, trace_id, trace_id_var,
                   middleware_active, next_uuid, result, ops, tokens, entered, with_log,
                   outcome, sink_calls, threads, posts, diagnostics, stdout, seen, print_calls>>

\* ------------------------------------------- middleware.py: the middleware

\* "and" in place of "or"
ExcludedBoth(req) == req.path \in cfg.exclude_paths /\ req.method \in cfg.exclude_methods

Excluded(req) == req.path \in cfg.exclude_paths \/ req.method \in cfg.exclude_methods

\* The inbound header ignored: always a new identifier
AlwaysUuid(req, n) == Uuid4(n)

\* request.headers.get("X-Trace-Id", str(uuid.uuid4()))
HeaderOrUuid(req, n) == IF req.x_trace_id = Absent THEN Uuid4(n) ELSE req.x_trace_id

\* dispatch up to "await call_next(request)", for an inbound request of reqs
DispatchEnter(r, reqs) ==
  /\ pc[r] = "idle"
  /\ \E req \in reqs :
       LET d == <<"d", r>>
           c == <<"h", r>>
       IN
       /\ request' = [request EXCEPT ![r] = req]
       /\ pc' = [pc EXCEPT ![r] = "call_next"]
       /\ IF Excluded(req)
            THEN /\ trace_id_var' = [trace_id_var EXCEPT ![c] = trace_id_var[d]]
                 /\ middleware_active' = [middleware_active EXCEPT ![c] = middleware_active[d]]
                 /\ UNCHANGED <<trace_id, next_uuid>>
            ELSE LET tid == HeaderOrUuid(req, next_uuid + 1)
                     stored == set_trace_id(d, tid, r)
                     active == set_middleware_active(d, TRUE)
                 IN
                 /\ next_uuid' = next_uuid + 1
                 /\ trace_id' = [trace_id EXCEPT ![r] = tid]
                 /\ trace_id_var' = [stored EXCEPT ![c] = stored[d]]
                 /\ middleware_active' = [active EXCEPT ![c] = active[d]]
  /\ UNCHANGED <<children, given, loggers, registered, cfg, builtins_print, root_handlers, result, ops, tokens, entered, with_log,
                 outcome, sink_calls, threads, tasks, posts, diagnostics, stdout, seen,
                 print_calls>>

\* The downstream handler finishes: call_next returns its response ...
HandlerReturns(r) ==
  /\ pc[r] = "call_next"
  /\ tokens[r] = <<>>
  /\ \E st \in Statuses :
       result' = [result EXCEPT ![r] = [kind |-> "response", status |-> st, x_trace_id |-> Absent]]
  /\ pc' = [pc EXCEPT ![r] = "resumed"]
  /\ UNCHANGED <<children, given, loggers, registered, cfg, builtins_print, root_handlers, request, trace_id, trace_id_var,
                 middleware_active, next_uuid, ops, tokens, entered, with_log, outcome,
                 sink_calls, threads, tasks, posts, diagnostics, stdout, seen, print_calls>>

\* ... or raises the handler's exception
HandlerRaises(r) ==
  /\ pc[r] = "call_next"
  /\ tokens[r] = <<>>
  /\ \E e \in Excs :
       result' = [result EXCEPT ![r] = [kind |-> "raise", exc |-> e]]
  /\ pc' = [pc EXCEPT ![r] = "resumed"]
  /\ UNCHANGED <<children, given, loggers, registered, cfg, builtins_print, root_handlers, request, trace_id, trace_id_var,
                 middleware_active, next_uuid, ops, tokens, entered, with_log, outcome,
                 sink_calls, threads, tasks, posts, diagnostics, stdout, seen, print_calls>>

\* ... or is cancelled: the awaited call_next raises CancelledError in dispatch
HandlerCancelled(r) ==
  /\ pc[r] = "call_next"
  /\ tokens[r] = <<>>
  /\ \E e \in BaseExcs :
       result' = [result EXCEPT ![r] = [kind |-> "raise", exc |-> e]]
  /\ pc' = [pc EXCEPT ![r] = "resumed"]
  /\ UNCHANGED <<children, given, loggers, registered, cfg, builtins_print, root_handlers, request, trace_id, trace_id_var,
                 middleware_active, next_uuid, ops, tokens, entered, with_log, outcome,
                 sink_calls, threads, tasks, posts, diagnostics, stdout, seen, print_calls>>

\* body in dispatch: the placeholder when log_request_body is set, else None
Body == IF cfg.log_request_body THEN "<body reading disabled>" ELSE None

\* The keys of log_data: the fixed ones, "error" in _log_error, and headers,
\* cookies and body under their "if self.log_..." tests
BaseKeys == {"trace_id", "method", "path", "query_params", "status_code",
             "duration_ms", "ip", "user_agent", "timestamp"}

\* The tests dropped: headers, cookies and body always in the record
LogKeysAlways(error) ==
  BaseKeys \cup (IF error = Absent THEN {} ELSE {"error"}) \cup {"headers", "cookies", "body"}

LogKeys(error) ==
  BaseKeys
    \cup (IF error = Absent THEN {} ELSE {"error"})
    \cup (IF cfg.log_headers THEN {"headers"} ELSE {})
    \cup (IF cfg.log_cookies THEN {"cookies"} ELSE {})
    \cup (IF cfg.log_request_body /\ Body # None THEN {"body"} ELSE {})

\* The identifier read back from the handler's context in place of the local
LogDataFromStore(r, status, error) ==
  [trace_id |-> get_trace_id(<<"h", r>>), method |-> request[r].method,
   path |-> request[r].path, status_code |-> status, error |-> error,
   keys |-> LogKeys(error), timestamp |-> "built"]

\* log_data as _log_request builds it (no "error" key) and as _log_error
\* builds it; "timestamp" is time.time() when the record is built
LogData(r, status, error) ==
  [trace_id |-> trace_id[r], method |-> request[r].method, path |-> request[r].path,
   status_code |-> status, error |-> error, keys |-> LogKeys(error),
   timestamp |-> "built"]

\* The hand-off without its try/except: an exception of the log function
\* leaves _log_request / _log_error
HandOffNoExcept(r, sinkFails) ==
  IF cfg.log_function = "async"
    THEN [threads |-> threads, tasks |-> tasks \cup {r}, diagnostics |-> diagnostics,
          inline |-> FALSE, raised |-> FALSE]
  ELSE IF cfg.log_function = "api_log_function"
    THEN [threads |-> api_log_function(threads, r), tasks |-> tasks,
          diagnostics |-> diagnostics, inline |-> FALSE, raised |-> FALSE]
    ELSE [threads |-> threads, tasks |-> tasks, diagnostics |-> diagnostics,
          inline |-> TRUE, raised |-> sinkFails]

\* The try block that ends _log_request and _log_error: the hand-off of
\* log_data to self.log_function.  sinkFails: the log function raises.
\* Gives the sender threads, the asyncio tasks, the diagnostics and whether the
\* log function's own work ran inside this call.
HandOff(r, sinkFails) ==
  IF cfg.log_function = "async"
    THEN [threads |-> threads, tasks |-> tasks \cup {r}, diagnostics |-> diagnostics,
          inline |-> FALSE, raised |-> FALSE]
  ELSE IF cfg.log_function = "api_log_function"
    THEN [threads |-> api_log_function(threads, r), tasks |-> tasks,
          diagnostics |-> diagnostics, inline |-> FALSE, raised |-> FALSE]
  ELSE IF sinkFails
    THEN [threads |-> logging_error(threads, r, 0), tasks |-> tasks,
          diagnostics |-> diagnostics \cup {Diag("Error in logging function", r, 0)},
          inline |-> TRUE, raised |-> FALSE]
    ELSE [threads |-> threads, tasks |-> tasks, diagnostics |-> diagnostics,
          inline |-> TRUE, raised |-> FALSE]

\* dispatch after call_next returned a response: the header, _log_request,
\* set_middleware_active(False), return response
DispatchSuccess(r) ==
  /\ pc[r] = "resumed"
  /\ ~Excluded(request[r])
  /\ result[r].kind = "response"
  /\ \E sinkFails \in BOOLEAN :
       LET h == HandOff(r, sinkFails) IN
       /\ sinkFails => cfg.log_function = "sync"
       /\ sink_calls' = sink_calls \cup
            {[req |-> r, log_data |-> LogData(r, result[r].status, Absent), inline |-> h.inline]}
       /\ threads' = h.threads
       /\ tasks' = h.tasks
       /\ diagnostics' = h.diagnostics
       /\ outcome' = [outcome EXCEPT ![r] =
            IF h.raised THEN [kind |-> "raise", exc |-> SinkError]
            ELSE [result[r] EXCEPT !.x_trace_id = trace_id[r]]]
       /\ middleware_active' = IF h.raised THEN middleware_active
                               ELSE set_middleware_active(<<"d", r>>, FALSE)
  /\ pc' = [pc EXCEPT ![r] = "done"]
  /\ UNCHANGED <<children, given, loggers, registered, cfg, builtins_print, root_handlers, request, trace_id, trace_id_var,
                 next_uuid, result, ops, tokens, entered, with_log, posts, stdout, seen,
                 print_calls>>

\* The failure branch without its _log_error call
DispatchFailureSilent(r) ==
  /\ pc[r] = "resumed"
  /\ ~Excluded(request[r])
  /\ result[r].kind = "raise"
  /\ IsException(result[r].exc)
  /\ outcome' = [outcome EXCEPT ![r] = result[r]]
  /\ middleware_active' = set_middleware_active(<<"d", r>>, FALSE)
  /\ pc' = [pc EXCEPT ![r] = "done"]
  /\ UNCHANGED <<children, given, loggers, registered, cfg, builtins_print, root_handlers, request,
                 trace_id, trace_id_var, next_uuid, result, ops, tokens, entered, with_log,
                 sink_calls, threads, tasks, diagnostics, posts, stdout, seen, print_calls>>

\* dispatch after call_next raised: _log_error with 500 and str(e),
\* set_middleware_active(False), raise
DispatchFailure(r) ==
  /\ pc[r] = "resumed"
  /\ ~Excluded(request[r])
  /\ result[r].kind = "raise"
  /\ IsException(result[r].exc)
  /\ \E sinkFails \in BOOLEAN :
       LET h == HandOff(r, sinkFails) IN
       /\ sinkFails => cfg.log_function = "sync"
       /\ sink_calls' = sink_calls \cup
            {[req |-> r, log_data |-> LogData(r, 500, Str(result[r].exc)), inline |-> h.inline]}
       /\ threads' = h.threads
       /\ tasks' = h.tasks
       /\ diagnostics' = h.diagnostics
       /\ outcome' = [outcome EXCEPT ![r] =
            IF h.raised THEN [kind |-> "raise", exc |-> SinkError] ELSE result[r]]
       /\ middleware_active' = IF h.raised THEN middleware_active
                               ELSE set_middleware_active(<<"d", r>>, FALSE)
  /\ pc' = [pc EXCEPT ![r] = "done"]
  /\ UNCHANGED <<children, given, loggers, registered, cfg, builtins_print, root_handlers, request, trace_id, trace_id_var,
                 next_uuid, result, ops, tokens, entered, with_log, posts, stdout, seen,
                 print_calls>>

\* dispatch after call_next raised what "except Exception" does not match:
\* the exception leaves dispatch from line 113, nothing else of dispatch runs
DispatchAbort(r) ==
  /\ pc[r] = "resumed"
  /\ ~Excluded(request[r])
  /\ result[r].kind = "raise"
  /\ ~IsException(result[r].exc)
  /\ outcome' = [outcome EXCEPT ![r] = result[r]]
  /\ pc' = [pc EXCEPT ![r] = "done"]
  /\ UNCHANGED <<children, given, loggers, registered, cfg, builtins_print, root_handlers, request, trace_id, trace_id_var,
                 middleware_active, next_uuid, result, ops, tokens, entered, with_log,
                 sink_calls, threads, tasks, posts, diagnostics, stdout, seen, print_calls>>

\* dispatch of an excluded request: return await call_next(request)
PassThrough(r) ==
  /\ pc[r] = "resumed"
  /\ Excluded(request[r])
  /\ outcome' = [outcome EXCEPT ![r] = result[r]]
  /\ pc' = [pc EXCEPT ![r] = "done"]
  /\ UNCHANGED <<children, given, loggers, registered, cfg, builtins_print, root_handlers, request, trace_id, trace_id_var,
                 middleware_active, next_uuid, result, ops, tokens, entered, with_log,
                 sink_calls, threads, tasks, posts, diagnostics, stdout, seen, print_calls>>

\* ------------------------------------------ context.py: the tagged output

\* A line given to original_print: the request whose handler printed it, the
\* identifier traced_print read (active), the identifier in the line's
\* "[trace_id: ...]" prefix (tag, None without a prefix) and who stored it
Line(r, slot, via) ==
  [req |-> r, active |-> slot.val, tag |-> IF via = "tagged" THEN slot.val ELSE None,
   by |-> IF via = "tagged" THEN slot.by ELSE 0, via |-> via]

\* traced_print(*args, **kwargs) called in the handler task of request r.
\*   argBad:  str(arg) raises for one of the arguments
\*   w1Fails: the first call of original_print raises (the stream fails)
\*   w2Fails: the call of original_print in the except block raises
\* Gives the lines emitted, the sender threads, the diagnostics and whether
\* the exception left traced_print.
traced_print(r, argBad, w1Fails, w2Fails) ==
  LET slot == Get(trace_id_var, <<"h", r>>)
      tagged == Truthy(slot.val)
  IN
  IF ~argBad /\ ~w1Fails
    THEN \* the try block: original_print, then send_to_api, which never raises
         [lines |-> {Line(r, slot, IF tagged THEN "tagged" ELSE "plain")},
          threads |-> send_to_api(threads, r, 0),
          diagnostics |-> diagnostics, raised |-> FALSE]
  ELSE IF argBad \/ w2Fails
    THEN \* the except block: original_print(*args, **kwargs) raises again
         [lines |-> {}, threads |-> threads, diagnostics |-> diagnostics, raised |-> TRUE]
    ELSE \* the except block: the untagged line, then logging.error
         [lines |-> {Line(r, slot, "fallback")},
          threads |-> logging_error(threads, r, 0),
          diagnostics |-> diagnostics \cup {Diag("Error in traced_print", r, 0)},
          raised |-> FALSE]

\* The handler calls print(...): builtins.print is traced_print once
\* setup_traced_print has run, original_print before
BuiltinsPrint(r) ==
  /\ pc[r] = "call_next"
  /\ ops[r] < MaxOps
  /\ ops' = [ops EXCEPT ![r] = @ + 1]
  /\ IF builtins_print = "traced_print"
       THEN \E argBad \in BOOLEAN, w1Fails \in BOOLEAN, w2Fails \in BOOLEAN :
              LET p == traced_print(r, argBad, w1Fails, w2Fails) IN
              /\ w2Fails => w1Fails
              /\ stdout' = stdout \cup p.lines
              /\ threads' = p.threads
              /\ diagnostics' = p.diagnostics
              /\ print_calls' = [print_calls EXCEPT ![r] =
                   [called |-> TRUE, argBad |-> argBad, w1Fails |-> w1Fails,
                    w2Fails |-> w2Fails, emitted |-> p.lines, raised |-> p.raised]]
       ELSE /\ stdout' = stdout \cup {Line(r, NoSlot, "builtin")}
            /\ UNCHANGED <<threads, diagnostics, print_calls>>
  /\ UNCHANGED <<children, given, loggers, registered, cfg, builtins_print, root_handlers, pc, request, trace_id, trace_id_var,
                 middleware_active, next_uuid, result, tokens, entered, with_log, outcome,
                 sink_calls, tasks, posts, seen>>

\* The handler calls logging.error(...) / logger.error(...)
Log(r) ==
  /\ pc[r] = "call_next"
  /\ ops[r] < MaxOps
  /\ ops' = [ops EXCEPT ![r] = @ + 1]
  /\ threads' = logging_error(threads, r, 0)
  /\ UNCHANGED <<children, given, loggers, registered, cfg, builtins_print, root_handlers, pc, request, trace_id, trace_id_var,
                 middleware_active, next_uuid, result, tokens, entered, with_log, outcome,
                 sink_calls, tasks, posts, diagnostics, stdout, seen, print_calls>>

\* The handler calls get_trace_id()
GetTraceId(r) ==
  /\ pc[r] = "call_next"
  /\ ops[r] < MaxOps
  /\ ops' = [ops EXCEPT ![r] = @ + 1]
  /\ seen' = [seen EXCEPT ![r] = [val |-> get_trace_id(<<"h", r>>),
                                   by |-> Get(trace_id_var, <<"h", r>>).by]]
  /\ UNCHANGED <<children, given, loggers, registered, cfg, builtins_print, root_handlers, pc, request, trace_id, trace_id_var,
                 middleware_active, next_uuid, result, tokens, entered, with_log, outcome,
                 sink_calls, threads, tasks, posts, diagnostics, stdout, print_calls>>

\* A task started without the context of its parent
EmptyContext(var, parent, t) == [var EXCEPT ![t] = NoSlot]

\* A new asyncio task runs in a copy of the context of the task creating it
CopyContext(var, parent, t) == [var EXCEPT ![t] = var[parent]]

\* The handler starts a task (asyncio.wait_for, asyncio.create_task) for
\* part of its work
Spawn(r) ==
  /\ pc[r] = "call_next"
  /\ <<"c", r>> \notin children
  /\ children' = children \cup {<<"c", r>>}
  /\ trace_id_var' = CopyContext(trace_id_var, <<"h", r>>, <<"c", r>>)
  /\ middleware_active' = [middleware_active EXCEPT ![<<"c", r>>] = middleware_active[<<"h", r>>]]
  /\ UNCHANGED <<given, loggers, registered, cfg, builtins_print, root_handlers, pc, request,
                 trace_id, next_uuid, result, ops, tokens, entered, with_log, outcome,
                 sink_calls, threads, tasks, posts, diagnostics, stdout, seen, print_calls>>

\* The handler calls set_trace_id(v)
SetTraceId(r) ==
  /\ pc[r] = "call_next"
  /\ ops[r] < MaxOps
  /\ ops' = [ops EXCEPT ![r] = @ + 1]
  /\ \E v \in HandlerIds : trace_id_var' = set_trace_id(<<"h", r>>, v, r)
  /\ UNCHANGED <<children, given, loggers, registered, cfg, builtins_print, root_handlers, pc, request, trace_id,
                 middleware_active, next_uuid, result, tokens, entered, with_log, outcome,
                 sink_calls, threads, tasks, posts, diagnostics, stdout, seen, print_calls>>

\* ------------------------------------------- context.py: with_trace_id

\* token = trace_id_var.set(trace_id): the Token keeps the slot it replaced
TokenOf(var, t) == [old |-> var[t]]

\* trace_id_var.set(None) in place of trace_id_var.reset(token)
ResetToNone(var, t, token) == [var EXCEPT ![t] = NoSlot]

\* trace_id_var.reset(token)
Reset(var, t, token) == [var EXCEPT ![t] = token.old]

\* The handler calls a function decorated with @with_trace_id(v): wrapper
\* (isAsync FALSE) or async_wrapper (isAsync TRUE) up to the call of func
WithEnter(r) ==
  /\ pc[r] = "call_next"
  /\ ops[r] < MaxOps
  /\ Len(tokens[r]) < MaxDepth
  /\ ops' = [ops EXCEPT ![r] = @ + 1]
  /\ \E v \in HandlerIds, isAsync \in BOOLEAN :
       LET t == <<"h", r>> IN
       /\ tokens' = [tokens EXCEPT ![r] = Append(@, TokenOf(trace_id_var, t))]
       /\ entered' = [entered EXCEPT ![r] =
            Append(@, [before |-> trace_id_var[t], id |-> v, isAsync |-> isAsync,
                       opsAt |-> ops[r] + 1])]
       /\ trace_id_var' = Set(trace_id_var, t, v, r)
  /\ UNCHANGED <<children, given, loggers, registered, cfg, builtins_print, root_handlers, pc, request, trace_id,
                 middleware_active, next_uuid, result, with_log, outcome,
                 sink_calls, threads, tasks, posts, diagnostics, stdout, seen, print_calls>>

\* func returns (raises FALSE) or raises (raises TRUE): the finally block
WithExit(r) ==
  /\ pc[r] = "call_next"
  /\ tokens[r] # <<>>
  /\ \E raises \in BOOLEAN :
       LET t == <<"h", r>>
           n == Len(tokens[r])
           restored == Reset(trace_id_var, t, tokens[r][n])
       IN
       /\ trace_id_var' = restored
       /\ tokens' = [tokens EXCEPT ![r] = SubSeq(@, 1, n - 1)]
       /\ entered' = [entered EXCEPT ![r] = SubSeq(@, 1, n - 1)]
       /\ with_log' = [with_log EXCEPT ![r] =
            [depth |-> n, id |-> entered[r][n].id, isAsync |-> entered[r][n].isAsync,
             raised |-> raises, before |-> entered[r][n].before, after |-> restored[t]]]
  /\ UNCHANGED <<children, given, loggers, registered, cfg, builtins_print, root_handlers, pc, request, trace_id,
                 middleware_active, next_uuid, result, ops, outcome,
                 sink_calls, threads, tasks, posts, diagnostics, stdout, seen, print_calls>>

\* ------------------------------------------------------- the whole program

\* setup_traced_print(): builtins.print = traced_print, one more APILogHandler
\* on the root logger
setup_traced_print(n) == [print |-> "traced_print", handlers |-> n + 1]

\* The option sets the applications of the repository use: the defaults
\* (main.py, test-app.py) and the exclusions of examples/advanced_usage.py
NoExclusions == [paths |-> {}, methods |-> {}]
SomeExclusions == [paths |-> {"/health"}, methods |-> {"OPTIONS"}]
Exclusions == {NoExclusions, SomeExclusions}
LogFunctions == {"api_log_function", "sync", "async"}

\* The log_format values the documentation names
ValidFormats == {"json", "text"}

\* The options SimpleLogger(...) is called with: log_format "custom" is that
\* of examples/advanced_usage.py; log_function None is the default
ConfigOptions ==
  [exclude_paths : {None}, exclude_methods : {None}, log_request_body : BOOLEAN,
   log_headers : {TRUE}, log_cookies : {TRUE}, log_format : ValidFormats \cup {"custom"},
   log_function : {None, "sync"}, patch_print : BOOLEAN]

\* SimpleLogger() and SimpleLogger(patch_print=False)
InstallOptions ==
  {o \in ConfigOptions :
     o.log_format = "json" /\ ~o.log_request_body /\ o.log_function = None}

\* "x or api_log_function"
OrApiLogFunction(f) == IF f = None THEN "api_log_function" ELSE f

\* The fields SimpleLogger.__init__ stores
NewSimpleLogger(o) == [o EXCEPT !.log_function = OrApiLogFunction(o.log_function)]

\* An __init__ that raises ValueError for a log_format it does not know
SimpleLoggerInitChecked(o) ==
  /\ Len(given) < MaxLoggers
  /\ given' = Append(given, o)
  /\ IF o.log_format \in ValidFormats
       THEN /\ loggers' = Append(loggers, NewSimpleLogger(o))
            /\ IF o.patch_print
                 THEN LET s == setup_traced_print(root_handlers)
                      IN /\ builtins_print' = s.print
                         /\ root_handlers' = s.handlers
                 ELSE UNCHANGED <<builtins_print, root_handlers>>
       ELSE UNCHANGED <<loggers, builtins_print, root_handlers>>
  /\ UNCHANGED <<children, registered, cfg, pc, request, trace_id, trace_id_var,
                 middleware_active, next_uuid, result, ops, tokens, entered, with_log,
                 outcome, sink_calls, threads, tasks, posts, diagnostics, stdout, seen,
                 print_calls>>

\* SimpleLogger(**o): every option is stored as given, nothing is checked;
\* setup_traced_print() runs here when patch_print is set
SimpleLoggerInit(o) ==
  /\ Len(given) < MaxLoggers
  /\ given' = Append(given, o)
  /\ loggers' = Append(loggers, NewSimpleLogger(o))
  /\ IF o.patch_print
       THEN LET s == setup_traced_print(root_handlers)
            IN /\ builtins_print' = s.print
               /\ root_handlers' = s.handlers
       ELSE UNCHANGED <<builtins_print, root_handlers>>
  /\ UNCHANGED <<children, registered, cfg, pc, request, trace_id, trace_id_var,
                 middleware_active, next_uuid, result, ops, tokens, entered, with_log,
                 outcome, sink_calls, threads, tasks, posts, diagnostics, stdout, seen,
                 print_calls>>

\* The middleware's own default for log_request_body in place of the logger's
MiddlewareOptionsDefault(lg) ==
  [exclude_paths |-> lg.exclude_paths, exclude_methods |-> lg.exclude_methods,
   log_request_body |-> TRUE, log_headers |-> lg.log_headers,
   log_cookies |-> lg.log_cookies, log_format |-> lg.log_format,
   log_function |-> lg.log_function]

\* The keyword arguments __call__ passes to SimpleLoggerMiddleware
MiddlewareOptions(lg) ==
  [exclude_paths |-> lg.exclude_paths, exclude_methods |-> lg.exclude_methods,
   log_request_body |-> lg.log_request_body, log_headers |-> lg.log_headers,
   log_cookies |-> lg.log_cookies, log_format |-> lg.log_format,
   log_function |-> lg.log_function]

\* The kinds of application a SimpleLogger is applied to
AppKinds == {"FastAPI", "ASGIApp"}

\* loggers[i](app): a FastAPI application gets the middleware through
\* add_middleware, any other application is wrapped in a middleware object
SimpleLoggerCall(i, app) ==
  /\ i \in DOMAIN loggers
  /\ Len(registered) < MaxApplied
  /\ registered' = Append(registered,
         [logger |-> i,
          via |-> IF app = "FastAPI" THEN "add_middleware" ELSE "wrapper",
          options |-> MiddlewareOptions(loggers[i])])
  /\ UNCHANGED <<children, given, loggers, cfg, builtins_print, root_handlers, pc, request, trace_id,
                 trace_id_var, middleware_active, next_uuid, result, ops, tokens, entered,
                 with_log, outcome, sink_calls, threads, tasks, posts, diagnostics, stdout,
                 seen, print_calls>>

\* log_headers, log_cookies, log_request_body: SimpleLogger's defaults, and
\* every choice of the three
DefaultFlags == [log_headers |-> TRUE, log_cookies |-> TRUE, log_request_body |-> FALSE]
AllFlags == [log_headers : BOOLEAN, log_cookies : BOOLEAN, log_request_body : BOOLEAN]

\* No request has arrived, nothing was logged or printed
NoRequests ==
  /\ children = {}
  /\ pc = [r \in Requests |-> "idle"]
  /\ request = [r \in Requests |-> [path |-> "/", method |-> "GET", x_trace_id |-> Absent]]
  /\ trace_id = [r \in Requests |-> None]
  /\ trace_id_var = [t \in Tasks |-> NoSlot]
  /\ middleware_active = [t \in Tasks |-> FALSE]
  /\ next_uuid = 0
  /\ result = [r \in Requests |-> [kind |-> "none"]]
  /\ ops = [r \in Requests |-> 0]
  /\ tokens = [r \in Requests |-> <<>>]
  /\ entered = [r \in Requests |-> <<>>]
  /\ with_log = [r \in Requests |-> [depth |-> 0]]
  /\ outcome = [r \in Requests |-> [kind |-> "none"]]
  /\ sink_calls = {}
  /\ threads = EmptyBag
  /\ tasks = {}
  /\ posts = {}
  /\ diagnostics = {}
  /\ stdout = {}
  /\ seen = [r \in Requests |-> [val |-> "<none>", by |-> 0]]
  /\ print_calls = [r \in Requests |-> [called |-> FALSE]]

\* SimpleLogger(...)(app): the state once the application is set up, for the
\* given choices of the exclusions, log_function, patch_print and the flags
SetupWith(exclusions, logFunctions, patchPrint, flags) ==
  /\ \E ex \in exclusions, lf \in logFunctions, fl \in flags :
       cfg = [exclude_paths |-> ex.paths, exclude_methods |-> ex.methods, log_function |-> lf,
              log_headers |-> fl.log_headers, log_cookies |-> fl.log_cookies,
              log_request_body |-> fl.log_request_body]
  /\ \E patch_print \in patchPrint :
       LET s == IF patch_print THEN setup_traced_print(0)
                ELSE [print |-> "original_print", handlers |-> 0]
       IN /\ builtins_print = s.print
          /\ root_handlers = s.handlers
  /\ LET o == [exclude_paths |-> cfg.exclude_paths, exclude_methods |-> cfg.exclude_methods,
               log_request_body |-> cfg.log_request_body, log_headers |-> cfg.log_headers,
               log_cookies |-> cfg.log_cookies, log_format |-> "json",
               log_function |-> cfg.log_function,
               patch_print |-> (builtins_print = "traced_print")]
     IN /\ given = <<o>>
        /\ loggers = <<NewSimpleLogger(o)>>
        /\ registered = <<[logger |-> 1, via |-> "add_middleware",
                           options |-> MiddlewareOptions(NewSimpleLogger(o))]>>
  /\ NoRequests

\* The same with the default flags
Setup(exclusions, logFunctions, patchPrint) ==
  SetupWith(exclusions, logFunctions, patchPrint, {DefaultFlags})

\* The request's way through dispatch, for an inbound request of reqs
Serve(r, reqs) ==
  \/ DispatchEnter(r, reqs)
  \/ HandlerReturns(r)
  \/ HandlerRaises(r)
  \/ DispatchSuccess(r)
  \/ DispatchFailure(r)
  \/ PassThrough(r)

\* The middleware and its sinks
Init == Setup(Exclusions, LogFunctions, {FALSE})

Next ==
  \/ \E r \in Requests : Serve(r, DispatchRequests)
  \/ SenderRun
  \/ AsyncSinkRun

Spec == Init /\ [][Next]_vars

\* The trace context store under concurrent requests
InitStore == Setup({SomeExclusions}, {"api_log_function"}, {FALSE})

NextStore ==
  \/ \E r \in Requests : Serve(r, GetRequests)
  \/ \E r \in Requests : GetTraceId(r)
  \/ \E r \in Requests : SetTraceId(r)
  \/ \E r \in Requests : WithEnter(r)
  \/ \E r \in Requests : WithExit(r)

SpecStore == InitStore /\ [][NextStore]_vars

\* with_trace_id in the handler of one request
InitScoped == Setup({SomeExclusions}, {"api_log_function"}, {FALSE})

NextScoped ==
  \/ Serve(1, GetRequests)
  \/ GetTraceId(1)
  \/ SetTraceId(1)
  \/ WithEnter(1)
  \/ WithExit(1)

SpecScoped == InitScoped /\ [][NextScoped]_vars

\* The tagged output sink under concurrent requests
InitOutput == Setup({SomeExclusions}, {"async"}, {TRUE})

NextOutput ==
  \/ \E r \in Requests : Serve(r, GetRequests)
  \/ \E r \in Requests : SetTraceId(r)
  \/ \E r \in Requests : BuiltinsPrint(r)

SpecOutput == InitOutput /\ [][NextOutput]_vars

\* The remote log dispatcher, one request at a time
InitRemote == Setup(Exclusions, {"api_log_function"}, BOOLEAN)

NextRemote ==
  \/ Serve(1, GetRequests)
  \/ BuiltinsPrint(1)
  \/ Log(1)
  \/ SenderRun

SpecRemote == InitRemote /\ [][NextRemote]_vars

\* The remote log dispatcher with the sink installed and nothing listening at
\* the endpoint; a thread that was started runs
InitUnreachable == Setup({SomeExclusions}, {"sync"}, {TRUE})

NextUnreachable ==
  \/ Serve(1, GetRequests)
  \/ BuiltinsPrint(1)
  \/ Log(1)
  \/ SenderRunUnreachable

SpecUnreachable ==
  InitUnreachable /\ [][NextUnreachable]_vars /\ WF_vars(SenderRunUnreachable)

\* The log records under every choice of the flags
InitRecord == SetupWith({SomeExclusions}, {"sync"}, {FALSE}, AllFlags)

NextRecord == \E r \in Requests : Serve(r, GetRequests)

SpecRecord == InitRecord /\ [][NextRecord]_vars

\* Handlers that start tasks for part of their work
InitVisible == Setup({SomeExclusions}, {"api_log_function"}, {FALSE})

NextVisible ==
  \E r \in Requests :
    \/ Serve(r, GetRequests)
    \/ Spawn(r)

SpecVisible == InitVisible /\ [][NextVisible]_vars

\* Requests whose handler the framework may cancel
InitCancel == Setup({SomeExclusions}, {"sync"}, {FALSE})

NextCancel ==
  \E r \in Requests :
    \/ Serve(r, DispatchRequests)
    \/ HandlerCancelled(r)
    \/ DispatchAbort(r)

SpecCancel == InitCancel /\ [][NextCancel]_vars

\* Configuration: the process before any SimpleLogger exists; cfg is the
\* option set of a SimpleLoggerMiddleware built with its defaults
InitConfig ==
  /\ given = <<>>
  /\ loggers = <<>>
  /\ registered = <<>>
  /\ cfg = [exclude_paths |-> {}, exclude_methods |-> {},
            log_function |-> "api_log_function", log_headers |-> TRUE,
            log_cookies |-> TRUE, log_request_body |-> TRUE]
  /\ builtins_print = "original_print"
  /\ root_handlers = 0
  /\ NoRequests

NextConfig ==
  \/ \E o \in ConfigOptions : SimpleLoggerInit(o)
  \/ \E i \in 1..MaxLoggers, app \in AppKinds : SimpleLoggerCall(i, app)

SpecConfig == InitConfig /\ [][NextConfig]_vars

\* print and logging calls in a process in which SimpleLogger objects are
\* constructed, each with or without patch_print; requests are served by a
\* SimpleLoggerMiddleware added with app.add_middleware
InitInstall ==
  /\ given = <<>>
  /\ loggers = <<>>
  /\ registered = <<>>
  /\ cfg = [exclude_paths |-> SomeExclusions.paths,
            exclude_methods |-> SomeExclusions.methods,
            log_function |-> "api_log_function", log_headers |-> TRUE,
            log_cookies |-> TRUE, log_request_body |-> TRUE]
  /\ builtins_print = "original_print"
  /\ root_handlers = 0
  /\ NoRequests

NextInstall ==
  \/ \E o \in InstallOptions : SimpleLoggerInit(o)
  \/ Serve(1, GetRequests)
  \/ BuiltinsPrint(1)
  \/ Log(1)
  \/ SenderRun

SpecInstall == InitInstall /\ [][NextInstall]_vars

\* ------------------------------------------------------------- the claims

IsExcluded(r) ==
  request[r].path \in cfg.exclude_paths \/ request[r].method \in cfg.exclude_methods

SinkCallsOf(r) == {c \in sink_calls : c.req = r}

\* C1 as stated: every response dispatch returns carries an X-Trace-Id header
\* that is non-empty and equals the inbound header when there was one.
C1_AsStated ==
  \A r \in Requests :
    outcome[r].kind = "response" =>
      /\ outcome[r].x_trace_id \notin {Absent, ""}
      /\ request[r].x_trace_id # Absent => outcome[r].x_trace_id = request[r].x_trace_id

\* C1 amended: every response dispatch returns for a request that is not
\* excluded carries an X-Trace-Id header; it equals the inbound header when
\* there was one, and it is non-empty unless the inbound header was empty.
C1_ResponseHeader ==
  \A r \in Requests :
    (outcome[r].kind = "response" /\ ~IsExcluded(r)) =>
      /\ outcome[r].x_trace_id # Absent
      /\ request[r].x_trace_id # Absent => outcome[r].x_trace_id = request[r].x_trace_id
      /\ request[r].x_trace_id # "" => outcome[r].x_trace_id # ""

C1_Witness ==
  /\ outcome[1].kind = "response" /\ ~IsExcluded(1)
  /\ request[1].x_trace_id = "abc" /\ outcome[1].x_trace_id = "abc"
  /\ outcome[2].kind = "response" /\ ~IsExcluded(2)
  /\ request[2].x_trace_id = Absent /\ outcome[2].x_trace_id = Uuid4(2)

\* C2: whatever get_trace_id returns in a request's task, and whatever the
\* store holds for a request's tasks, was stored by that request's own flow
\* (or is the default): never by another request in flight.
C2_Isolation ==
  /\ \A r \in Requests : seen[r].by \in {0, r}
  /\ \A t \in Tasks : trace_id_var[t].by \in {0, t[2]}

C2_Witness ==
  /\ pc[1] = "call_next" /\ pc[2] = "call_next"
  /\ trace_id_var[<<"h", 1>>] = [val |-> "xyz", by |-> 1]
  /\ tokens[1] # <<>>
  /\ seen[2] = [val |-> "abc", by |-> 2]
  /\ seen[1] = [val |-> "xyz", by |-> 1]

\* C3 as stated: when the handler raises, a log record with status 500 and a
\* non-empty error field is handed to the sink and the handler's exception is
\* what dispatch raises.
C3_AsStated ==
  \A r \in Requests :
    (pc[r] = "done" /\ ~IsExcluded(r) /\ result[r].kind = "raise") =>
      /\ outcome[r] = result[r]
      /\ \E c \in SinkCallsOf(r) :
           /\ c.log_data.status_code = 500
           /\ c.log_data.error \notin {Absent, ""}

\* C4: an excluded request passes through untouched: nothing is stored for
\* it, the middleware-active marker keeps its value, no log record is handed
\* to the sink, and what call_next gave is what dispatch gives.
C4_PassThrough ==
  \A r \in Requests :
    (pc[r] # "idle" /\ IsExcluded(r)) =>
      /\ trace_id_var[<<"d", r>>] = NoSlot /\ trace_id_var[<<"h", r>>] = NoSlot
      /\ ~middleware_active[<<"d", r>>] /\ ~middleware_active[<<"h", r>>]
      /\ trace_id[r] = None
      /\ SinkCallsOf(r) = {}
      /\ pc[r] = "done" => outcome[r] = result[r]

C4_Witness ==
  /\ pc[1] = "done" /\ request[1].path = "/health" /\ request[1].method = "GET"
  /\ request[1].x_trace_id = "abc" /\ IsExcluded(1) /\ outcome[1].kind = "response"
  /\ pc[2] = "done" /\ request[2].path = "/" /\ request[2].method = "OPTIONS"
  /\ IsExcluded(2) /\ outcome[2].kind = "raise"

\* C5: whether or not the sink fails, dispatch gives the handler's response
\* (with the header added) when the handler returned, and the handler's own
\* exception when it raised.
C5_SinkFailureIsolated ==
  \A r \in Requests :
    (pc[r] = "done" /\ ~IsExcluded(r)) =>
      IF result[r].kind = "response"
        THEN /\ outcome[r].kind = "response"
             /\ outcome[r].status = result[r].status
        ELSE outcome[r] = result[r]

\* the custom log function raised for request 1, the POST failed for request 2,
\* and both requests were served
C5_Witness ==
  \/ /\ cfg.log_function = "sync"
     /\ Diag("Error in logging function", 1, 0) \in diagnostics
     /\ outcome[1].kind = "response"
     /\ Diag("Error in logging function", 2, 0) \in diagnostics
     /\ outcome[2].kind = "raise"
  \/ /\ cfg.log_function = "api_log_function"
     /\ Diag("Error sending log to API", 1, 0) \in diagnostics
     /\ outcome[1].kind = "response"
     /\ Diag("Error sending log to API", 2, 0) \in diagnostics
     /\ outcome[2].kind = "raise"

\* C6 as stated: for every kind of log function the hand-off returns while
\* the log function's work is still to be done: the work never runs inside
\* dispatch.
C6_AsStated == \A c \in sink_calls : ~c.inline

TracedLines == {l \in stdout : l.via \in {"tagged", "plain", "fallback"}}

\* C7 as stated: every line traced_print emits while an identifier is active
\* is prefixed with it, the identifier being the request's own; without an
\* active identifier the line is unmodified.
C7_AsStated ==
  \A l \in TracedLines :
    IF l.active # None THEN l.tag = l.active /\ l.by = l.req ELSE l.tag = None

\* C7 amended: every line the try block of traced_print emits while a
\* non-empty identifier is active is prefixed with that identifier, stored by
\* the request's own flow; a line emitted while the identifier is None or
\* empty, or emitted by the except block, is unmodified; no line carries an
\* identifier stored by another request.
C7_TaggedOutput ==
  \A l \in TracedLines :
    /\ (l.active \notin {None, ""} /\ l.via # "fallback") =>
          l.via = "tagged" /\ l.tag = l.active /\ l.by = l.req
    /\ (l.active \in {None, ""} \/ l.via = "fallback") => l.tag = None
    /\ l.by \in {0, l.req}

C7_Witness ==
  /\ pc[1] = "call_next" /\ pc[2] = "call_next"
  /\ \E l1 \in TracedLines, l2 \in TracedLines :
       /\ l1.req = 1 /\ l1.tag = "abc" /\ l1.by = 1
       /\ l2.req = 2 /\ l2.tag = "xyz" /\ l2.by = 2
  /\ \E l \in TracedLines : l.req = 1 /\ l.via = "fallback" /\ l.active = "abc"

\* C8 as stated: no call of traced_print raises, and every call emits the
\* message.
C8_AsStated ==
  \A r \in Requests :
    print_calls[r].called =>
      /\ ~print_calls[r].raised
      /\ print_calls[r].emitted # {}

\* C9 as stated: a failed send is only recorded locally: no sender thread and
\* no POST is caused by the failure of an earlier send.
C9_AsStated ==
  /\ \A t \in BagToSet(threads) : t.gen = 0
  /\ \A p \in posts : p.gen = 0

\* C10: with_trace_id stores the given identifier when it calls the function
\* and, when the function returns or raises, leaves in the store exactly the
\* slot that was there before the call, nested wrappers included.
C10_Scoped ==
  \A r \in Requests :
    /\ with_log[r].depth > 0 => with_log[r].after = with_log[r].before
    /\ \A i \in 1..Len(tokens[r]) :
         (i = Len(tokens[r]) /\ ops[r] = entered[r][i].opsAt) =>
            trace_id_var[<<"h", r>>] = [val |-> entered[r][i].id, by |-> r]

\* the inner of two nested async wrappers raised, inside a request whose
\* identifier came from the inbound header
C10_Witness ==
  /\ with_log[1].depth = 2 /\ with_log[1].raised /\ with_log[1].isAsync
  /\ with_log[1].before = [val |-> "xyz", by |-> 1]
  /\ trace_id_var[<<"h", 1>>] = [val |-> "xyz", by |-> 1]
  /\ Len(tokens[1]) = 1 /\ tokens[1][1].old = [val |-> "abc", by |-> 1]

\* C11: every log record handed to the sink, by _log_request and by
\* _log_error, has the key trace_id; it has the key headers, cookies or body
\* only if log_headers, log_cookies or log_request_body is set.
C11_RecordFields ==
  \A c \in sink_calls :
    /\ "trace_id" \in c.log_data.keys /\ c.log_data.trace_id = trace_id[c.req]
    /\ "headers" \in c.log_data.keys => cfg.log_headers
    /\ "cookies" \in c.log_data.keys => cfg.log_cookies
    /\ "body" \in c.log_data.keys => cfg.log_request_body

\* with a flag off, a record of the success path and one of the failure path
C11_Witness ==
  /\ ~cfg.log_headers /\ cfg.log_cookies /\ ~cfg.log_request_body
  /\ \E c \in SinkCallsOf(1) : c.log_data.status_code = 200 /\ "cookies" \in c.log_data.keys
  /\ \E c \in SinkCallsOf(2) : c.log_data.status_code = 500 /\ "error" \in c.log_data.keys

\* C12 as stated: an option value outside the documented ones is rejected when
\* the object is constructed: no SimpleLogger and no registered middleware
\* carries a log_format other than "json" and "text".
C12_AsStated ==
  /\ \A i \in DOMAIN loggers : loggers[i].log_format \in ValidFormats
  /\ \A k \in DOMAIN registered : registered[k].options.log_format \in ValidFormats

\* C12: construction rejects nothing: every SimpleLogger(...) call yields an
\* object holding the log_format it was given, whatever it is, and applying
\* the object registers a middleware with that log_format.
C12_Accepted ==
  /\ Len(loggers) = Len(given)
  /\ \A i \in DOMAIN loggers : loggers[i].log_format = given[i].log_format
  /\ \A k \in DOMAIN registered :
       /\ registered[k].logger \in DOMAIN given
       /\ registered[k].options.log_format = given[registered[k].logger].log_format

\* log_format "custom" constructed and registered
C12_Witness ==
  \E k \in DOMAIN registered :
    /\ given[registered[k].logger].log_format = "custom"
    /\ registered[k].options.log_format = "custom"

\* C13 as stated: the middleware is registered with the configured options,
\* and print is replaced exactly if a configuration with patch_print set has
\* been applied to an application.
C13_AsStated ==
  /\ \A k \in DOMAIN registered :
       \A f \in DOMAIN registered[k].options :
         registered[k].options[f] = loggers[registered[k].logger][f]
  /\ (builtins_print = "traced_print")
       <=> (\E k \in DOMAIN registered : loggers[registered[k].logger].patch_print)

\* C13: applying a SimpleLogger registers the middleware with the seven
\* options the object holds; print is replaced exactly if a SimpleLogger with
\* patch_print set has been constructed, applied or not, with one
\* APILogHandler added per such construction.
C13_Constructed ==
  /\ \A k \in DOMAIN registered :
       /\ DOMAIN registered[k].options =
            {"exclude_paths", "exclude_methods", "log_request_body", "log_headers",
             "log_cookies", "log_format", "log_function"}
       /\ \A f \in DOMAIN registered[k].options :
            registered[k].options[f] = loggers[registered[k].logger][f]
  /\ (builtins_print = "traced_print") <=> (\E i \in DOMAIN loggers : loggers[i].patch_print)
  /\ root_handlers = Cardinality({i \in DOMAIN loggers : loggers[i].patch_print})

\* a configuration without patch_print and without log_request_body is
\* applied while print is replaced by one that was never applied
C13_Witness ==
  /\ Len(loggers) = 2 /\ loggers[1].patch_print /\ ~loggers[2].patch_print
  /\ ~loggers[2].log_request_body
  /\ Len(registered) = 1 /\ registered[1].logger = 2
  /\ builtins_print = "traced_print"

\* C14 as stated: once dispatch of a non-excluded request has returned or
\* raised, whatever ended the handler, middleware_active is False in the
\* context dispatch ran in.
C14_AsStated ==
  \A r \in Requests :
    (pc[r] = "done" /\ ~IsExcluded(r)) => ~middleware_active[<<"d", r>>]

\* C15 as stated: when dispatch of a non-excluded request ends with the
\* handler's cancellation, a log record of that request has been handed to
\* the log function.
C15_AsStated ==
  \A r \in Requests :
    (pc[r] = "done" /\ ~IsExcluded(r) /\ outcome[r].kind = "raise"
       /\ outcome[r].exc \in BaseExcs)
      => SinkCallsOf(r) # {}

\* C16: while the handler of a non-excluded request runs (and stores no
\* identifier of its own), get_trace_id() gives the identifier dispatch stored
\* at entry, in the handler's task and in every task the handler started.
C16_Visible ==
  \A r \in Requests :
    (pc[r] = "call_next" /\ ~IsExcluded(r)) =>
      \A t \in {<<"h", r>>} \cup {c \in children : c[2] = r} :
        /\ get_trace_id(t) = trace_id[r]
        /\ get_trace_id(t) # None
        /\ trace_id_var[t].by = r

\* two handlers run, each has started a task, and each task sees the
\* identifier of its own request
C16_Witness ==
  /\ pc[1] = "call_next" /\ pc[2] = "call_next"
  /\ ~IsExcluded(1) /\ ~IsExcluded(2)
  /\ children = {<<"c", 1>>, <<"c", 2>>}
  /\ get_trace_id(<<"c", 1>>) = "abc"
  /\ get_trace_id(<<"c", 2>>) = "uuid-1"

\* C17 as stated: once dispatch of a non-excluded request has returned or
\* raised, the context dispatch ran in holds what it held before the request
\* entered (no identifier), not the identifier of the request.
C17_AsStated ==
  \A r \in Requests :
    (pc[r] = "done" /\ ~IsExcluded(r)) =>
      /\ trace_id_var[<<"d", r>>] = NoSlot
      /\ get_trace_id(<<"d", r>>) # trace_id[r]

\* C18: once the sender thread that api_log_function started for a record of
\* the middleware has run, the record the middleware handed over has the
\* keys and values it was built with.
C18_RecordUnchanged ==
  \A c \in sink_calls :
    (cfg.log_function = "api_log_function"
       /\ \E p \in posts : p.kind = "record" /\ p.req = c.req)
      => /\ c.log_data.timestamp = "built"
         /\ c.log_data =
              IF result[c.req].kind = "raise"
                THEN LogData(c.req, 500, Str(result[c.req].exc))
                ELSE LogData(c.req, result[c.req].status, Absent)

\* the sender threads of a success record and of a failure record have run
C18_Witness ==
  /\ cfg.log_function = "api_log_function"
  /\ \E c \in SinkCallsOf(1) : c.log_data.status_code = 200
  /\ \E c \in SinkCallsOf(2) : c.log_data.status_code = 500
  /\ \A r \in Requests : \E p \in posts : p.kind = "record" /\ p.req = r

\* C19: for a non-excluded request, the X-Trace-Id header of the response, the
\* trace_id of the log record and the identifier dispatch stored in its
\* context at entry are one value (the inbound header if there was one),
\* whatever the handler passed to set_trace_id or with_trace_id meanwhile.
C19_OneIdentifier ==
  \A r \in Requests :
    (pc[r] = "done" /\ ~IsExcluded(r)) =>
      /\ trace_id_var[<<"d", r>>] = [val |-> trace_id[r], by |-> r]
      /\ request[r].x_trace_id # Absent => trace_id[r] = request[r].x_trace_id
      /\ outcome[r].kind = "response" => outcome[r].x_trace_id = trace_id[r]
      /\ SinkCallsOf(r) # {}
      /\ \A c \in SinkCallsOf(r) : c.log_data.trace_id = trace_id[r]

\* the handler stored "xyz" and returned; header and record carry "abc"
C19_Witness ==
  /\ pc[1] = "done" /\ ~IsExcluded(1)
  /\ get_trace_id(<<"h", 1>>) = "xyz"
  /\ outcome[1].kind = "response" /\ outcome[1].x_trace_id = "abc"
  /\ \E c \in SinkCallsOf(1) : c.log_data.trace_id = "abc"

\* C20: a non-excluded request whose handler returned a response or raised an
\* exception has had the log function called once, with the record of the
\* success path or with that of the failure path according to the outcome;
\* an excluded request, and one still being handled, has had no call.
C20_OnceEach ==
  \A r \in Requests :
    /\ Cardinality(SinkCallsOf(r)) = IF pc[r] = "done" /\ ~IsExcluded(r) THEN 1 ELSE 0
    /\ \A c \in SinkCallsOf(r) :
         ("error" \in c.log_data.keys) <=> (result[r].kind = "raise")
    /\ CopiesIn(Thread("record", r, 0), threads)
         + Cardinality({p \in posts : p.kind = "record" /\ p.req = r /\ p.gen = 0}) =
           IF cfg.log_function = "api_log_function" THEN Cardinality(SinkCallsOf(r)) ELSE 0

\* a failed request with one call of the log function and an excluded
\* request with none
C20_Witness ==
  /\ pc[1] = "done" /\ pc[2] = "done"
  /\ ~IsExcluded(1) /\ result[1].kind = "raise" /\ Cardinality(SinkCallsOf(1)) = 1
  /\ IsExcluded(2) /\ SinkCallsOf(2) = {}

\* C21 as stated: with the sink installed and the endpoint unreachable, the
\* sender threads that print and logging calls set off come to an end: from
\* some point on no sender thread is pending.
C21_AsStated == <>[](threads = EmptyBag)

\* C22 as stated: however often setup_traced_print has run, one logging call
\* starts one send, and one print call whose arguments and stream are in
\* order emits one line and starts one send.
C22_AsStated ==
  [][/\ (root_handlers >= 1 /\ Log(1))
          => BagCardinality(threads') = BagCardinality(threads) + 1
     /\ (builtins_print = "traced_print" /\ BuiltinsPrint(1)
            /\ ~print_calls'[1].argBad /\ ~print_calls'[1].w1Fails)
          => /\ BagCardinality(threads') = BagCardinality(threads) + 1
             /\ Cardinality(print_calls'[1].emitted) = 1]_vars

====
